---------------------------- MODULE Spec2Model ----------------------------
(***************************************************************************)
(* Model of the AI Photo Studio session component (src/App.tsx).           *)
(*                                                                         *)
(* The React component keeps five pieces of state (originalImage, prompt,  *)
(* editedResults, isLoading, error) and mutates them from four handlers    *)
(* (handleImageUpload, handleNewUpload, handleSubmit, handleDownloadAll)   *)
(* and from the continuations of the two asynchronous handlers.            *)
(*                                                                         *)
(* Text that the code inspects character by character (the prompt that is  *)
(* trimmed and sanitized, the media type that is split, the archive entry  *)
(* names) is a sequence of one-character strings.  Messages that the code  *)
(* only stores and shows are TLA+ strings.                                 *)
(***************************************************************************)
EXTENDS Integers, Sequences, FiniteSets, TLC

VARIABLES
    originalImage,  \* useState<UploadedImage | null>            App.tsx:59
    prompt,         \* useState<string>                          App.tsx:60
    editedResults,  \* useState<EditedImageResult[]>             App.tsx:61
    isLoading,      \* useState<boolean>                         App.tsx:62
    error,          \* useState<string | null>                   App.tsx:63
    apiKeyMissing,  \* environment: what getInitializationError() reports
    jszipLoaded,    \* environment: typeof JSZip !== 'undefined'
    inflight,       \* outstanding editImageWithGemini calls, with what each closure captured
    exports,        \* handleDownloadAll invocations that are past their guards
    resultSource,   \* history: for each entry of editedResults, the image its request carried
    lastEvent       \* history: the handler or continuation that ran last, and what it
                    \* was given or handed out

vars == <<originalImage, prompt, editedResults, isLoading, error, apiKeyMissing,
          jszipLoaded, inflight, exports, resultSource, lastEvent>>

\* null / undefined
None == "<null>"
\* originalImage === null
NoImage == [dataUrl |-> None, mimeType |-> <<>>]

-----------------------------------------------------------------------------
(* Bounds of the exploration *)

\* the user stops submitting once this many results and requests exist
MaxResults == 2
\* asynchronous operations (edit calls plus archive exports) alive at once
MaxInFlight == 2
\* length of the free part of a prompt in the archive-naming specification
MaxWord == 2

-----------------------------------------------------------------------------
(* Text *)

Lower == {"a","b","c","d","e","f","g","h","i","j","k","l","m",
          "n","o","p","q","r","s","t","u","v","w","x","y","z"}
Upper == {"A","B","C","D","E","F","G","H","I","J","K","L","M",
          "N","O","P","Q","R","S","T","U","V","W","X","Y","Z"}
Digit == {"0","1","2","3","4","5","6","7","8","9"}

\* the complement of the class [^a-z0-9_.-] under the i flag
AllowedChar == Lower \cup Upper \cup Digit \cup {"_", ".", "-"}

\* white space String.prototype.trim strips (the part of it the model types)
WhiteSpace == {" ", "\t", "\n"}

RECURSIVE TrimStart(_)
TrimStart(s) ==
    IF s = <<>> THEN <<>>
    ELSE IF Head(s) \in WhiteSpace THEN TrimStart(Tail(s)) ELSE s

RECURSIVE TrimEnd(_)
TrimEnd(s) ==
    IF s = <<>> THEN <<>>
    ELSE IF s[Len(s)] \in WhiteSpace THEN TrimEnd(SubSeq(s, 1, Len(s) - 1)) ELSE s

\* prompt.trim()
Trim(s) == TrimEnd(TrimStart(s))

\* the length sanitizeFilename cuts to
SanitizeLimit == 50

\* name.replace(/[^a-z0-9_.-]/gi, '_')
ReplaceDisallowed(s) ==
    [i \in 1..Len(s) |-> IF s[i] \in AllowedChar THEN s[i] ELSE "_"]

\* .substring(0, 50)
Substring0(s, n) == SubSeq(s, 1, IF Len(s) < n THEN Len(s) ELSE n)

\* sanitizeFilename cutting the name without replacing anything
sanitizeFilenameCutOnly(name) == Substring0(name, SanitizeLimit)

\* sanitizeFilename
sanitizeFilename(name) == Substring0(ReplaceDisallowed(name), SanitizeLimit)

\* decimal digits of a number, as template literals print it
DigitOf(d) ==
    CASE d = 0 -> "0" [] d = 1 -> "1" [] d = 2 -> "2" [] d = 3 -> "3" [] d = 4 -> "4"
      [] d = 5 -> "5" [] d = 6 -> "6" [] d = 7 -> "7" [] d = 8 -> "8" [] d = 9 -> "9"

RECURSIVE NumberToString(_)
NumberToString(n) ==
    IF n < 10 THEN <<DigitOf(n)>>
    ELSE NumberToString(n \div 10) \o <<DigitOf(n % 10)>>

\* mimeType.split('/'): the pieces between the slashes
RECURSIVE SplitSlash(_, _)
SplitSlash(s, piece) ==
    IF s = <<>> THEN <<piece>>
    ELSE IF Head(s) = "/" THEN <<piece>> \o SplitSlash(Tail(s), <<>>)
    ELSE SplitSlash(Tail(s), Append(piece, Head(s)))

\* originalImage.mimeType.split('/')[1] || 'png'
originalExt(mimeType) ==
    LET parts == SplitSlash(mimeType, <<>>)
    IN  IF Len(parts) >= 2 /\ parts[2] # <<>> THEN parts[2] ELSE <<"p","n","g">>

\* `original.${originalExt}`
OriginalEntryName(image) ==
    <<"o","r","i","g","i","n","a","l",".">> \o originalExt(image.mimeType)

\* `edit_${index + 1}`     (index counts from 0 in the source, from 1 here)
EditLabel(i) == <<"e","d","i","t","_">> \o NumberToString(i)

\* result.prompt ? sanitizeFilename(result.prompt) : `edit_${index + 1}`
promptPart(result, i) ==
    IF result.prompt # <<>>
    THEN sanitizeFilename(result.prompt)
    ELSE EditLabel(i)

\* `edit_${index + 1}_${promptPart}.png`
EditEntryName(result, i) ==
    EditLabel(i) \o <<"_">> \o promptPart(result, i) \o <<".","p","n","g">>

\* the entries zip.file() is called with: the original, then one per result
ArchiveEntries(image, results) ==
    <<OriginalEntryName(image)>> \o [i \in 1..Len(results) |-> EditEntryName(results[i], i)]

-----------------------------------------------------------------------------
(* Values *)

\* UploadedImage (types.ts:8-11): two files the user may pick
Images ==
    { [dataUrl |-> "data:image/png;base64,AAAA",
       mimeType |-> <<"i","m","a","g","e","/","p","n","g">>],
      [dataUrl |-> "data:image/jpeg;base64,BBBB",
       mimeType |-> <<"i","m","a","g","e","/","j","p","e","g">>] }

\* what the user may type into the textarea: nothing, white space only, a plain
\* word, and a word with white space around it and a disallowed character in it
Prompts == { <<>>, <<" ">>, <<"c","a","t">>, <<" ","a","/","b"," ">> }

\* the messages the handlers set
ValidationMsg == "Please provide an image and a descriptive prompt."
NoImagesMsg == "No images to download."
NoJSZipMsg == "Could not find the JSZip library. Download failed."
UnknownErrorMsg == "An unknown error occurred."
UnknownDownloadMsg == "An unknown error occurred during download."
DownloadFailedMsg(message) == "Download failed: " \o message

\* the standing configuration error of services/geminiService
InitErrorMsg == "API key is not configured."
\* the message the uploader reports for a file that is not an image
NotAnImageMsg == "Please upload a valid image file."

\* getInitializationError(): the configuration error, or null
getInitializationError == IF apiKeyMissing THEN InitErrorMsg ELSE None

\* a thrown value: an Error with its message, or something that is no Error
ErrorValue(message) == [isError |-> TRUE, message |-> message]
NonErrorValue == [isError |-> FALSE, message |-> None]

\* editImageWithGemini(image, prompt): the ways the call may settle.  It resolves
\* with an image reference and optional commentary, or rejects with a descriptive
\* error; without the credential it can only reject.
EditResolutions ==
    IF apiKeyMissing THEN {}
    ELSE { [imageUrl |-> "data:image/png;base64,EDIT", text |-> t] :
              t \in {None, "Here is your edited image."} }
EditRejections ==
    IF apiKeyMissing THEN {ErrorValue(InitErrorMsg)}
    ELSE {ErrorValue("The AI model did not return an image."), NonErrorValue}

\* what fetch(), zip.file() or zip.generateAsync() may throw
ExportRejections == {ErrorValue("Failed to fetch"), NonErrorValue}

Event(op, arg) == [op |-> op, arg |-> arg]

\* a sequence without its i-th element
RemoveAt(seq, i) == SubSeq(seq, 1, i - 1) \o SubSeq(seq, i + 1, Len(seq))

-----------------------------------------------------------------------------
(* Initial state: the component after its first render *)

Init ==
    /\ apiKeyMissing \in BOOLEAN
    /\ jszipLoaded \in BOOLEAN
    /\ originalImage = NoImage
    /\ prompt = <<>>
    /\ editedResults = <<>>
    /\ isLoading = FALSE
    /\ error = getInitializationError
    /\ inflight = <<>>
    /\ exports = <<>>
    /\ resultSource = <<>>
    /\ lastEvent = Event("mount", None)

-----------------------------------------------------------------------------
(* Handlers *)

\* handleImageUpload
handleImageUpload(image) ==
    /\ originalImage' = image
    /\ editedResults' = <<>>
    /\ resultSource' = <<>>
    /\ error' = None
    /\ lastEvent' = Event("handleImageUpload", image)
    /\ UNCHANGED <<prompt, isLoading, apiKeyMissing, jszipLoaded, inflight, exports>>

\* setAppError, as the uploader calls it for a file it refuses
setAppError(message) ==
    /\ error' = message
    /\ lastEvent' = Event("setAppError", message)
    /\ UNCHANGED <<originalImage, prompt, editedResults, isLoading, apiKeyMissing,
                   jszipLoaded, inflight, exports, resultSource>>

\* onChange={(e) => setPrompt(e.target.value)}
setPrompt(value) ==
    /\ prompt' = value
    /\ lastEvent' = Event("setPrompt", value)
    /\ UNCHANGED <<originalImage, editedResults, isLoading, error, apiKeyMissing,
                   jszipLoaded, inflight, exports, resultSource>>

\* handleNewUpload leaving the typed prompt in place
handleNewUploadKeepsPrompt ==
    /\ originalImage' = NoImage
    /\ editedResults' = <<>>
    /\ resultSource' = <<>>
    /\ error' = getInitializationError
    /\ lastEvent' = Event("handleNewUpload", None)
    /\ UNCHANGED <<prompt, isLoading, apiKeyMissing, jszipLoaded, inflight, exports>>

\* handleNewUpload
handleNewUpload ==
    /\ originalImage' = NoImage
    /\ editedResults' = <<>>
    /\ resultSource' = <<>>
    /\ prompt' = <<>>
    /\ error' = getInitializationError
    /\ lastEvent' = Event("handleNewUpload", None)
    /\ UNCHANGED <<isLoading, apiKeyMissing, jszipLoaded, inflight, exports>>

\* the request handleSubmit hands to editImageWithGemini: the image and prompt its
\* closure holds (resultsAtSubmit is history, for stating what completion changes)
EditRequest ==
    [image |-> originalImage, prompt |-> prompt, resultsAtSubmit |-> editedResults]

\* handleSubmit testing !prompt where the source tests !prompt.trim()
handleSubmitUntrimmed ==
    /\ lastEvent' = Event("handleSubmit", None)
    /\ IF originalImage = NoImage \/ prompt = <<>>
       THEN /\ error' = ValidationMsg
            /\ UNCHANGED <<isLoading, inflight>>
       ELSE /\ error' = None
            /\ isLoading' = TRUE
            /\ inflight' = Append(inflight, EditRequest)
    /\ UNCHANGED <<originalImage, prompt, editedResults, apiKeyMissing, jszipLoaded,
                   exports, resultSource>>

\* handleSubmit, up to its await
handleSubmit ==
    /\ lastEvent' = Event("handleSubmit", None)
    /\ IF originalImage = NoImage \/ Trim(prompt) = <<>>
       THEN /\ error' = ValidationMsg
            /\ UNCHANGED <<isLoading, inflight>>
       ELSE /\ error' = None
            /\ isLoading' = TRUE
            /\ inflight' = Append(inflight, EditRequest)
    /\ UNCHANGED <<originalImage, prompt, editedResults, apiKeyMissing, jszipLoaded,
                   exports, resultSource>>

\* the continuation keeping a single result slot instead of a history
EditResolveSingleSlot(i, result) ==
    LET req == inflight[i]
    IN  /\ editedResults' =
                <<[imageUrl |-> result.imageUrl, text |-> result.text, prompt |-> req.prompt]>>
        /\ resultSource' = <<req.image>>
        /\ isLoading' = FALSE
        /\ inflight' = RemoveAt(inflight, i)
        /\ lastEvent' = Event("editResolved", req)
        /\ UNCHANGED <<originalImage, prompt, error, apiKeyMissing, jszipLoaded, exports>>

\* handleSubmit after its await, the call having resolved: try body, then finally
EditResolve(i, result) ==
    LET req == inflight[i]
    IN  /\ editedResults' = Append(editedResults,
                [imageUrl |-> result.imageUrl, text |-> result.text, prompt |-> req.prompt])
        /\ resultSource' = Append(resultSource, req.image)
        /\ isLoading' = FALSE
        /\ inflight' = RemoveAt(inflight, i)
        /\ lastEvent' = Event("editResolved", req)
        /\ UNCHANGED <<originalImage, prompt, error, apiKeyMissing, jszipLoaded, exports>>

\* the catch block showing err.message without asking whether err is an Error
EditRejectMessageOnly(i, err) ==
    LET req == inflight[i]
    IN  /\ error' = err.message
        /\ isLoading' = FALSE
        /\ inflight' = RemoveAt(inflight, i)
        /\ lastEvent' = Event("editRejected", req)
        /\ UNCHANGED <<originalImage, prompt, editedResults, resultSource, apiKeyMissing,
                       jszipLoaded, exports>>

\* handleSubmit after its await, the call having rejected: catch, then finally
EditReject(i, err) ==
    LET req == inflight[i]
    IN  /\ error' = IF err.isError THEN err.message ELSE UnknownErrorMsg
        /\ isLoading' = FALSE
        /\ inflight' = RemoveAt(inflight, i)
        /\ lastEvent' = Event("editRejected", req)
        /\ UNCHANGED <<originalImage, prompt, editedResults, resultSource, apiKeyMissing,
                       jszipLoaded, exports>>

\* the export handleDownloadAll starts: what its closure holds, the fetches it has
\* issued so far, and the entries its archive holds so far
ExportTask ==
    [image |-> originalImage, results |-> editedResults, fetches |-> 1, zip |-> <<>>]

\* handleDownloadAll testing only for the original image
handleDownloadAllAnyResults ==
    /\ lastEvent' = Event("handleDownloadAll", None)
    /\ IF originalImage = NoImage
       THEN /\ error' = NoImagesMsg
            /\ UNCHANGED <<isLoading, exports>>
       ELSE IF ~jszipLoaded
       THEN /\ error' = NoJSZipMsg
            /\ UNCHANGED <<isLoading, exports>>
       ELSE /\ isLoading' = TRUE
            /\ error' = None
            /\ exports' = Append(exports, ExportTask)
    /\ UNCHANGED <<originalImage, prompt, editedResults, apiKeyMissing, jszipLoaded,
                   inflight, resultSource>>

\* handleDownloadAll, up to its first await (the fetch of the original is issued)
handleDownloadAll ==
    /\ lastEvent' = Event("handleDownloadAll", None)
    /\ IF originalImage = NoImage \/ Len(editedResults) = 0
       THEN /\ error' = NoImagesMsg
            /\ UNCHANGED <<isLoading, exports>>
       ELSE IF ~jszipLoaded
       THEN /\ error' = NoJSZipMsg
            /\ UNCHANGED <<isLoading, exports>>
       ELSE /\ isLoading' = TRUE
            /\ error' = None
            /\ exports' = Append(exports, ExportTask)
    /\ UNCHANGED <<originalImage, prompt, editedResults, apiKeyMissing, jszipLoaded,
                   inflight, resultSource>>

\* handleDownloadAll: the original is fetched and filed, and one fetch per result
\* is issued
ExportFetchResults(i) ==
    LET task == exports[i]
    IN  /\ task.zip = <<>>
        /\ exports' = [exports EXCEPT ![i] =
                [task EXCEPT !.fetches = 1 + Len(task.results),
                             !.zip = <<OriginalEntryName(task.image)>>]]
        /\ lastEvent' = Event("exportFetchResults", None)
        /\ UNCHANGED <<originalImage, prompt, editedResults, isLoading, error,
                       apiKeyMissing, jszipLoaded, inflight, resultSource>>

\* handleDownloadAll: every result is fetched and filed, the archive is generated
\* and handed to the browser; then finally
ExportFinish(i) ==
    LET task == exports[i]
    IN  /\ task.zip # <<>>
        /\ isLoading' = FALSE
        /\ exports' = RemoveAt(exports, i)
        /\ lastEvent' = Event("exportFinished",
                [image |-> task.image, results |-> task.results,
                 entries |-> ArchiveEntries(task.image, task.results)])
        /\ UNCHANGED <<originalImage, prompt, editedResults, error, apiKeyMissing,
                       jszipLoaded, inflight, resultSource>>

\* the catch block without the finally block after it
ExportFailNoFinally(i, err) ==
    /\ error' = IF err.isError THEN DownloadFailedMsg(err.message) ELSE UnknownDownloadMsg
    /\ exports' = RemoveAt(exports, i)
    /\ lastEvent' = Event("exportFailed", None)
    /\ UNCHANGED <<originalImage, prompt, editedResults, isLoading, apiKeyMissing,
                   jszipLoaded, inflight, resultSource>>

\* handleDownloadAll: something in the try block threw; catch, then finally
ExportFail(i, err) ==
    /\ error' = IF err.isError THEN DownloadFailedMsg(err.message) ELSE UnknownDownloadMsg
    /\ isLoading' = FALSE
    /\ exports' = RemoveAt(exports, i)
    /\ lastEvent' = Event("exportFailed", None)
    /\ UNCHANGED <<originalImage, prompt, editedResults, apiKeyMissing, jszipLoaded,
                   inflight, resultSource>>

-----------------------------------------------------------------------------
(* What the rendered page lets the user do *)

\* {!originalImage ? <ImageUploader .../> : <the editor>}
UploaderRendered == originalImage = NoImage
EditorRendered == originalImage # NoImage

\* <textarea disabled={isLoading}>
PromptEnabled == EditorRendered /\ ~isLoading

\* Generate Edit without isLoading in its disabled expression
SubmitEnabledWhileLoading ==
    EditorRendered /\ ~(Trim(prompt) = <<>> \/ getInitializationError # None)

\* Generate Edit: disabled={isLoading || !prompt.trim() || !!getInitializationError()}
SubmitEnabled ==
    EditorRendered /\ ~(isLoading \/ Trim(prompt) = <<>> \/ getInitializationError # None)

\* Download All as ZIP without isLoading in its disabled expression
DownloadEnabledWhileLoading == EditorRendered /\ ~(Len(editedResults) = 0)

\* Download All as ZIP: disabled={isLoading || editedResults.length === 0}
DownloadEnabled == EditorRendered /\ ~(isLoading \/ Len(editedResults) = 0)

\* Upload New Image without its disabled expression
ResetEnabledWhileLoading == EditorRendered

\* Upload New Image: disabled={isLoading}
ResetEnabled == EditorRendered /\ ~isLoading

\* the exploration stops starting operations at its bounds
AsyncWithinBound == Len(inflight) + Len(exports) < MaxInFlight
ResultsWithinBound == Len(editedResults) + Len(inflight) < MaxResults
\* a handler called directly is explored where it refuses, and where the
\* operation it starts is the only one
NothingOutstanding == inflight = <<>> /\ exports = <<>>

-----------------------------------------------------------------------------
(* The session as the page drives it *)

Upload == UploaderRendered /\ \E image \in Images : handleImageUpload(image)

UploadRefused == UploaderRendered /\ setAppError(NotAnImageMsg)

TypePrompt == PromptEnabled /\ \E value \in Prompts : setPrompt(value)

ClickSubmit == SubmitEnabled /\ AsyncWithinBound /\ ResultsWithinBound /\ handleSubmit

ClickDownload == DownloadEnabled /\ AsyncWithinBound /\ handleDownloadAll

ClickReset == ResetEnabled /\ handleNewUpload

EditCallResolves ==
    \E i \in 1..Len(inflight) : \E result \in EditResolutions : EditResolve(i, result)

EditCallRejects ==
    \E i \in 1..Len(inflight) : \E err \in EditRejections : EditReject(i, err)

ExportProceeds == \E i \in 1..Len(exports) : ExportFetchResults(i)

ExportCompletes == \E i \in 1..Len(exports) : ExportFinish(i)

ExportThrows == \E i \in 1..Len(exports) : \E err \in ExportRejections : ExportFail(i, err)

Next ==
    \/ Upload
    \/ UploadRefused
    \/ TypePrompt
    \/ ClickSubmit
    \/ ClickDownload
    \/ ClickReset
    \/ EditCallResolves
    \/ EditCallRejects
    \/ ExportProceeds
    \/ ExportCompletes
    \/ ExportThrows

Spec == Init /\ [][Next]_vars

\* every call and every export settles: the transport resolves or rejects
FairSpec ==
    /\ Spec
    /\ WF_vars(EditCallResolves \/ EditCallRejects)
    /\ WF_vars(ExportProceeds \/ ExportCompletes \/ ExportThrows)

-----------------------------------------------------------------------------
(* The session with handleSubmit and handleDownloadAll also called directly, in  *)
(* states where the page does not offer their buttons                           *)

CallHandleSubmit ==
    /\ \/ originalImage = NoImage
       \/ Trim(prompt) = <<>>
       \/ NothingOutstanding /\ ResultsWithinBound
    /\ handleSubmit

CallHandleDownloadAll ==
    /\ \/ originalImage = NoImage
       \/ Len(editedResults) = 0
       \/ NothingOutstanding
    /\ handleDownloadAll

NextHandlers ==
    \/ Next
    \/ CallHandleSubmit
    \/ CallHandleDownloadAll

SpecHandlers == Init /\ [][NextHandlers]_vars

-----------------------------------------------------------------------------
(* Archive naming: sessions that hold results for prompts of many shapes, and   *)
(* the export of each                                                           *)

\* characters of the free part of a prompt: allowed ones of each kind (letter of
\* either case, punctuation), white space, and a disallowed one
NameAlphabet == {"a", "Q", ".", " ", "/"}

RECURSIVE Words(_)
Words(n) ==
    IF n = 0 THEN {<<>>}
    ELSE LET shorter == Words(n - 1)
         IN  shorter \cup {Append(w, c) : w \in {v \in shorter : Len(v) = n - 1},
                                          c \in NameAlphabet}

\* n letters
Padding(n) == [i \in 1..n |-> "x"]

\* the free part lies at the start, across the cut of sanitizeFilename, or past it
PaddingLengths == {0, SanitizeLimit - 1, SanitizeLimit}

\* prompts handleSubmit accepts: some text is left after trimming
NamedPrompts ==
    {p \in {Padding(n) \o w : n \in PaddingLengths, w \in Words(MaxWord)} :
        Trim(p) # <<>>}

PlainPrompt == <<"c","a","t">>

\* the results of n successful edits of one image, the k-th for prompt p
ResultsFor(n, k, p) ==
    [i \in 1..n |-> [imageUrl |-> "data:image/png;base64,EDIT", text |-> None,
                     prompt |-> IF i = k THEN p ELSE PlainPrompt]]

InitExport ==
    /\ apiKeyMissing = FALSE
    /\ jszipLoaded \in BOOLEAN
    /\ originalImage \in Images
    /\ \E n \in 1..MaxResults : \E k \in 1..n : \E p \in NamedPrompts :
          /\ editedResults = ResultsFor(n, k, p)
          /\ prompt = ResultsFor(n, k, p)[n].prompt
          /\ resultSource = [i \in 1..n |-> originalImage]
          /\ lastEvent = Event("editResolved",
                [image |-> originalImage, prompt |-> ResultsFor(n, k, p)[n].prompt,
                 resultsAtSubmit |-> SubSeq(ResultsFor(n, k, p), 1, n - 1)])
    /\ isLoading = FALSE
    /\ error = None
    /\ inflight = <<>>
    /\ exports = <<>>

NextExport ==
    \/ ClickDownload
    \/ ExportProceeds
    \/ ExportCompletes
    \/ ExportThrows

SpecExport == InitExport /\ [][NextExport]_vars

-----------------------------------------------------------------------------
(* Properties *)

\* the step just taken was this handler or continuation
Ran(op) == lastEvent'.op = op

\* C1: handleSubmit called with no original image, or with a prompt that is empty
\* after trimming, starts no edit call, sets the validation error, and leaves the
\* loading flag, the image, the prompt and the results as they were.
C1_SubmitRefusal ==
    [][(Ran("handleSubmit") /\ (originalImage = NoImage \/ Trim(prompt) = <<>>))
          => /\ inflight' = inflight
             /\ error' = ValidationMsg
             /\ UNCHANGED <<isLoading, originalImage, prompt, editedResults>>]_vars

\* handleSubmit has just refused a prompt of white space typed for an uploaded image
C1_Witness ==
    /\ lastEvent.op = "handleSubmit"
    /\ originalImage # NoImage
    /\ prompt = <<" ">>
    /\ error = ValidationMsg
    /\ inflight = <<>>
    /\ ~isLoading

\* C2: when an edit call resolves, the error is none and the results are the
\* results of submit time followed by exactly one new entry, which echoes the
\* submitted prompt; the earlier entries and their order are unchanged.
C2_SuccessAppendsOne ==
    [][Ran("editResolved")
          => LET req == lastEvent'.arg
                 n == Len(req.resultsAtSubmit)
             IN  /\ error' = None
                 /\ editedResults = req.resultsAtSubmit
                 /\ Len(editedResults') = n + 1
                 /\ SubSeq(editedResults', 1, n) = req.resultsAtSubmit
                 /\ editedResults'[n + 1].prompt = req.prompt]_vars

\* a second edit has just been recorded after a first one for another prompt
C2_Witness ==
    /\ lastEvent.op = "editResolved"
    /\ Len(editedResults) = 2
    /\ editedResults[1].prompt # editedResults[2].prompt
    /\ editedResults[2].prompt = lastEvent.arg.prompt
    /\ error = None

\* C3: when an edit call rejects, the results, the image and the prompt are those
\* of submit time, and the error is a non-empty message: the failure's own, or
\* the fixed unknown-error text.
C3_FailureKeepsResults ==
    [][Ran("editRejected")
          => LET req == lastEvent'.arg
             IN  /\ editedResults' = req.resultsAtSubmit
                 /\ originalImage' = req.image
                 /\ prompt' = req.prompt
                 /\ UNCHANGED <<editedResults, originalImage, prompt>>
                 /\ error' # None
                 /\ error' # ""
                 /\ \/ error' = UnknownErrorMsg
                    \/ \E err \in EditRejections : err.isError /\ error' = err.message]_vars

\* an edit call has just been rejected with something that is no Error, in a
\* session that holds an earlier result
C3_Witness ==
    /\ lastEvent.op = "editRejected"
    /\ error = UnknownErrorMsg
    /\ Len(editedResults) = 1
    /\ lastEvent.arg.resultsAtSubmit = editedResults

\* C4 as claimed: after handleNewUpload there is no image, an empty prompt, no
\* results and no error message, whatever the state before.
C4_ResetClearsAll ==
    [][Ran("handleNewUpload")
          => /\ originalImage' = NoImage
             /\ prompt' = <<>>
             /\ editedResults' = <<>>
             /\ error' = None]_vars

\* C4 as amended: after handleNewUpload there is no image, an empty prompt and no
\* results, and the error is what getInitializationError reports: none with the
\* credential present, the configuration error with the credential missing.
C4_ResetRestoresInitError ==
    [][Ran("handleNewUpload")
          => /\ originalImage' = NoImage
             /\ prompt' = <<>>
             /\ editedResults' = <<>>
             /\ apiKeyMissing => error' = InitErrorMsg
             /\ ~apiKeyMissing => error' = None]_vars

\* the session has just been reset where the credential is missing
C4_Witness ==
    /\ lastEvent.op = "handleNewUpload"
    /\ apiKeyMissing
    /\ originalImage = NoImage
    /\ error = InitErrorMsg

\* C5 as claimed: while the loading flag is set, exactly one edit call is
\* outstanding.
C5_LoadingMeansOneEditCall == isLoading => Len(inflight) = 1

\* C5 as amended: while the loading flag is set, exactly one asynchronous
\* operation is outstanding, an edit call or an archive export.
C5_LoadingMeansOneOperation == isLoading => Len(inflight) + Len(exports) = 1

\* the loading flag is set by an archive export, no edit call being outstanding
C5_Witness == isLoading /\ Len(exports) = 1 /\ inflight = <<>>

\* C6: never two edit calls outstanding, nor an edit call together with an export
\* (nor two exports).
C6_AtMostOneInFlight == Len(inflight) + Len(exports) <= 1

\* an edit call is outstanding in a session whose prompt and results would let
\* Generate Edit and Download All start another operation
C6_Witness ==
    /\ Len(inflight) = 1
    /\ isLoading
    /\ Trim(prompt) # <<>>
    /\ Len(editedResults) = 1
    /\ jszipLoaded

\* C7: handleDownloadAll called with no results, or with no original image,
\* starts no export (so issues no fetch and makes no archive), sets the
\* nothing-to-download error, and leaves the loading flag, the image, the prompt
\* and the results as they were.
C7_EmptyExportRefused ==
    [][(Ran("handleDownloadAll") /\ (originalImage = NoImage \/ Len(editedResults) = 0))
          => /\ exports' = exports
             /\ error' = NoImagesMsg
             /\ UNCHANGED <<isLoading, originalImage, prompt, editedResults, inflight>>]_vars

\* handleDownloadAll has just refused an uploaded image with no results, JSZip
\* being loaded
C7_Witness ==
    /\ lastEvent.op = "handleDownloadAll"
    /\ originalImage # NoImage
    /\ editedResults = <<>>
    /\ jszipLoaded
    /\ error = NoImagesMsg
    /\ exports = <<>>
    /\ ~isLoading

HasDisallowed(text) == \E j \in 1..Len(text) : text[j] \notin AllowedChar
OnlyAllowed(text) == \A j \in 1..Len(text) : text[j] \in AllowedChar

\* C8 as claimed: in a downloaded archive, the entry of every result whose prompt
\* holds a disallowed character consists of allowed characters and is at most
\* 50 characters long.
C8_EntryNameWithinLimit ==
    lastEvent.op = "exportFinished"
        => \A i \in 1..Len(lastEvent.arg.results) :
              HasDisallowed(lastEvent.arg.results[i].prompt)
                  => LET name == lastEvent.arg.entries[i + 1]
                     IN  OnlyAllowed(name) /\ Len(name) <= SanitizeLimit

\* C8 as amended: that entry consists of allowed characters and is edit_<n>_,
\* then a part of at most 50 characters (as long as the prompt when that is
\* shorter), then .png.
C8_EntryNamePartWithinLimit ==
    lastEvent.op = "exportFinished"
        => \A i \in 1..Len(lastEvent.arg.results) :
              HasDisallowed(lastEvent.arg.results[i].prompt)
                  => LET name == lastEvent.arg.entries[i + 1]
                         text == lastEvent.arg.results[i].prompt
                         head == EditLabel(i) \o <<"_">>
                         tail == <<".","p","n","g">>
                         part == SubSeq(name, Len(head) + 1, Len(name) - Len(tail))
                     IN  /\ OnlyAllowed(name)
                         /\ Len(name) >= Len(head) + Len(tail)
                         /\ name = head \o part \o tail
                         /\ Len(part) <= SanitizeLimit
                         /\ Len(part) = IF Len(text) < SanitizeLimit
                                        THEN Len(text) ELSE SanitizeLimit

\* an archive has been downloaded with a result whose prompt is longer than the
\* limit and holds a disallowed character before the cut
C8_Witness ==
    /\ lastEvent.op = "exportFinished"
    /\ \E i \in 1..Len(lastEvent.arg.results) :
          LET text == lastEvent.arg.results[i].prompt
          IN  /\ Len(text) > SanitizeLimit
              /\ HasDisallowed(SubSeq(text, 1, SanitizeLimit))

\* C9: the loading flag, once set by a submit or an export, is cleared again,
\* whether the operation succeeds or fails; and it is never set while no
\* operation is outstanding.
C9_LoadingCleared ==
    /\ isLoading ~> ~isLoading
    /\ [](NothingOutstanding => ~isLoading)

\* an export has just failed and the loading flag is clear
C9_Witness ==
    /\ lastEvent.op = "exportFailed"
    /\ error = UnknownDownloadMsg
    /\ NothingOutstanding
    /\ ~isLoading

\* C10: every outstanding edit request carries the current original image, and
\* every entry of the results was produced from the current original image.
C10_NoStaleResult ==
    /\ Len(resultSource) = Len(editedResults)
    /\ \A i \in 1..Len(resultSource) : resultSource[i] = originalImage
    /\ \A i \in 1..Len(inflight) :
          /\ inflight[i].image = originalImage
          /\ inflight[i].image # NoImage

\* a result has just been recorded for the current image while another request
\* for it is the latest event's
C10_Witness ==
    /\ lastEvent.op = "editResolved"
    /\ Len(editedResults) = 2
    /\ lastEvent.arg.image = originalImage
    /\ resultSource = <<originalImage, originalImage>>

=============================================================================
